---------------------------- MODULE Spec2Model ----------------------------
(***************************************************************************)
(* Model of .github/scripts/maintainers/index.js: the maintainers roster   *)
(* is rebuilt from the CODEOWNERS files of every repository.               *)
(*                                                                         *)
(* A JavaScript string is a sequence of one-character strings, so that     *)
(* split, trim, slice, startsWith, includes and toLowerCase are computed   *)
(* character by character.  A Set and the keys of an object are sequences  *)
(* without repetition, in insertion order.                                 *)
(***************************************************************************)
EXTENDS Integers, Sequences, FiniteSets, TLC

(***************************************************************************)
(* Bounds of the model.                                                    *)
(***************************************************************************)
\* number of CODEOWNERS files returned by getAllCodeownersFiles
MaxDocs == 2
\* number of records in the previous MAINTAINERS file
MaxPrev == 2

(***************************************************************************)
(* Generic helpers.                                                        *)
(***************************************************************************)
Range(s) == { s[i] : i \in DOMAIN s }

RECURSIVE Flatten(_)
Flatten(ss) == IF ss = <<>> THEN <<>> ELSE Head(ss) \o Flatten(Tail(ss))

\* an optional value: <<>> is undefined, <<v>> is the value v
None == <<>>
Some(v) == <<v>>

(***************************************************************************)
(* JavaScript string primitives.                                           *)
(***************************************************************************)
UpperChars == <<"A","B","C","D","E","F","G","H","I","J","K","L","M",
                "N","O","P","Q","R","S","T","U","V","W","X","Y","Z">>
LowerChars == <<"a","b","c","d","e","f","g","h","i","j","k","l","m",
                "n","o","p","q","r","s","t","u","v","w","x","y","z">>
DigitChars == <<"0","1","2","3","4","5","6","7","8","9">>

ToLowerChar(c) ==
  IF \E i \in DOMAIN UpperChars : UpperChars[i] = c
  THEN LowerChars[CHOOSE i \in DOMAIN UpperChars : UpperChars[i] = c]
  ELSE c

\* String.prototype.toLowerCase
ToLowerCase(s) == [i \in DOMAIN s |-> ToLowerChar(s[i])]

\* the characters matched by \s and removed by trim()
IsWhitespace(c) == c \in {" ", "\t", "\r", "\n"}

RECURSIVE TrimStart(_)
TrimStart(s) ==
  IF s # <<>> /\ IsWhitespace(Head(s)) THEN TrimStart(Tail(s)) ELSE s

RECURSIVE TrimEnd(_)
TrimEnd(s) ==
  IF s # <<>> /\ IsWhitespace(s[Len(s)])
  THEN TrimEnd(SubSeq(s, 1, Len(s) - 1)) ELSE s

\* String.prototype.trim
Trim(s) == TrimEnd(TrimStart(s))

\* s.startsWith(p)
StartsWith(s, p) == Len(s) >= Len(p) /\ SubSeq(s, 1, Len(p)) = p

\* s.includes(c) for a one-character c
Includes(s, c) == \E i \in DOMAIN s : s[i] = c

\* s.slice(1), also Array.prototype.slice(1)
Slice1(s) == IF s = <<>> THEN <<>> ELSE Tail(s)

\* s.split(c) for a one-character separator c: never empty, "" gives [""]
RECURSIVE SplitChar(_, _)
SplitChar(s, c) ==
  IF ~Includes(s, c) THEN <<s>>
  ELSE LET p == CHOOSE i \in DOMAIN s :
                  s[i] = c /\ \A j \in 1..(i - 1) : s[j] # c
       IN  <<SubSeq(s, 1, p - 1)>> \o SplitChar(SubSeq(s, p + 1, Len(s)), c)

\* s.split(/\s+/): a maximal run of whitespace is one separator
RECURSIVE SplitWsRun(_, _)
SplitWsRun(s, cur) ==
  IF s = <<>> THEN <<cur>>
  ELSE IF IsWhitespace(Head(s))
       THEN <<cur>> \o SplitWsRun(TrimStart(s), <<>>)
       ELSE SplitWsRun(Tail(s), Append(cur, Head(s)))

\* line.trim().split(/\s+/)
splitByWhitespace(line) == SplitWsRun(Trim(line), <<>>)

\* list?.split(",").map(trim).filter(item !== "") ?? []
getCommaSeparatedInputList(list) ==
  IF list = None THEN <<>>
  ELSE LET items == SplitChar(list[1], ",")
           trimmed == [i \in DOMAIN items |-> Trim(items[i])]
       IN  SelectSeq(trimmed, LAMBDA item : item # <<>>)

(***************************************************************************)
(* extractGitHubUsernames                                                  *)
(***************************************************************************)
DocTriagersMarker == <<"d","o","c","T","r","i","a","g","e","r","s",":">>
CodeTriagersMarker == <<"c","o","d","e","T","r","i","a","g","e","r","s",":">>

\* length of the match of /docTriagers:|codeTriagers:/ at position i, or 0
MarkerAt(s, i) ==
  LET rest == SubSeq(s, i, Len(s))
  IN  IF StartsWith(rest, DocTriagersMarker) THEN Len(DocTriagersMarker)
      ELSE IF StartsWith(rest, CodeTriagersMarker) THEN Len(CodeTriagersMarker)
      ELSE 0

\* comment.split(/docTriagers:|codeTriagers:/)
RECURSIVE SplitMarkers(_)
SplitMarkers(s) ==
  IF \A i \in DOMAIN s : MarkerAt(s, i) = 0 THEN <<s>>
  ELSE LET p == CHOOSE i \in DOMAIN s :
                  MarkerAt(s, i) > 0 /\ \A j \in 1..(i - 1) : MarkerAt(s, j) = 0
       IN  <<SubSeq(s, 1, p - 1)>>
             \o SplitMarkers(SubSeq(s, p + MarkerAt(s, p), Len(s)))

\* Set.prototype.add: insertion order is kept, a present value is not moved
SetAdd(set, v) == IF v \in Range(set) THEN set ELSE Append(set, v)

RECURSIVE SetAddAll(_, _)
SetAddAll(set, vs) ==
  IF vs = <<>> THEN set ELSE SetAddAll(SetAdd(set, Head(vs)), Tail(vs))

\* the owners a declaration token contributes: '@name' gives 'name',
\* an email or a team gives nothing (and a warning)
AcceptedOwner(owner) ==
  IF ~StartsWith(owner, <<"@">>) \/ Includes(owner, "/")
  THEN <<>>
  ELSE <<Slice1(owner)>>

\* the body of the loop over the lines, for one line
ExtractLine(uniqueOwners, line) ==
  LET parts == SplitChar(line, "#")
      ownersLine == parts[1]
      comment == IF Len(parts) >= 2 THEN parts[2] ELSE <<>>
      pieces == SplitMarkers(comment)
      \* [1] of the split; an absent or empty piece is falsy
      triagers == IF Len(pieces) >= 2 THEN pieces[2] ELSE <<>>
      custom == IF triagers # <<>> THEN splitByWhitespace(triagers) ELSE <<>>
      owners == Slice1(splitByWhitespace(ownersLine))
      native == Flatten([i \in DOMAIN owners |-> AcceptedOwner(owners[i])])
  IN  SetAddAll(SetAddAll(uniqueOwners, custom), native)

RECURSIVE ExtractLines(_, _)
ExtractLines(uniqueOwners, lines) ==
  IF lines = <<>> THEN uniqueOwners
  ELSE ExtractLines(ExtractLine(uniqueOwners, Head(lines)), Tail(lines))

extractGitHubUsernames(codeownersContent) ==
  IF codeownersContent = <<>> THEN <<>>
  ELSE ExtractLines(<<>>, SplitChar(codeownersContent, "\n"))


(***************************************************************************)
(* JavaScript objects: the properties of currentMaintainers, as a sequence *)
(* of [key, value] in insertion order.                                     *)
(***************************************************************************)
Keys(obj) == { obj[i].key : i \in DOMAIN obj }
HasKey(obj, k) == k \in Keys(obj)
Get(obj, k) == obj[CHOOSE i \in DOMAIN obj : obj[i].key = k].value

\* obj[k] = v: a present property keeps its place, a new one comes last
Put(obj, k, v) ==
  IF HasKey(obj, k)
  THEN [i \in DOMAIN obj |-> IF obj[i].key = k THEN [key |-> k, value |-> v]
                             ELSE obj[i]]
  ELSE Append(obj, [key |-> k, value |-> v])

\* delete obj[k]
Delete(obj, k) == SelectSeq(obj, LAMBDA p : p.key # k)

\* the value of a decimal digit
DigitValue(c) == (CHOOSE i \in DOMAIN DigitChars : DigitChars[i] = c) - 1

\* a < b for canonical decimal numerals (no leading zero): the shorter one
\* is the smaller one, numerals of one length compare digit by digit
NumeralLess(a, b) ==
  \/ Len(a) < Len(b)
  \/ /\ Len(a) = Len(b)
     /\ \E i \in DOMAIN a :
          /\ DigitValue(a[i]) < DigitValue(b[i])
          /\ \A j \in 1..(i - 1) : a[j] = b[j]

\* 2^32 - 1, the first integer that is not an array index
MaxArrayIndexLimit == <<"4","2","9","4","9","6","7","2","9","5">>

\* an array index is the canonical decimal form of an integer in 0..2^32-2;
\* such property keys are enumerated first, in ascending numeric order
IsArrayIndex(k) ==
  /\ k # <<>>
  /\ \A i \in DOMAIN k : k[i] \in Range(DigitChars)
  /\ (Len(k) > 1 => k[1] # "0")
  /\ NumeralLess(k, MaxArrayIndexLimit)

RECURSIVE SortByIndex(_)
SortByIndex(props) ==
  IF props = <<>> THEN <<>>
  ELSE LET m == CHOOSE i \in DOMAIN props :
                  \A j \in DOMAIN props :
                     ~NumeralLess(props[j].key, props[i].key)
       IN  <<props[m]>>
             \o SortByIndex(SubSeq(props, 1, m - 1)
                              \o SubSeq(props, m + 1, Len(props)))

\* the properties in the order Object.values and for-in enumerate them
OwnProperties(obj) ==
  SortByIndex(SelectSeq(obj, LAMBDA p : IsArrayIndex(p.key)))
    \o SelectSeq(obj, LAMBDA p : ~IsArrayIndex(p.key))

\* Object.values(obj)
ObjectValues(obj) ==
  LET props == OwnProperties(obj) IN [i \in DOMAIN props |-> props[i].value]

\* { ...a, ...b }: the fields of b overwrite those of a
Spread(a, b) ==
  [f \in DOMAIN a \cup DOMAIN b |-> IF f \in DOMAIN b THEN b[f] ELSE a[f]]

(***************************************************************************)
(* The collaborators of gh_calls.js, cache.js and summary.js.              *)
(***************************************************************************)
\* the profile getGitHubProfile returns for an account that exists
GitHubProfile(owner) ==
  [github |-> owner, githubID |-> <<"id">> \o ToLowerCase(owner),
   name |-> <<"name">> \o owner]

\* the repositories getRepositories lists, in order
RepoNames == <<"A", "B", "C", "D">>

\* contents of CODEOWNERS files
\* "* @Alice"
ContentAliceUpper == <<"*"," ","@","A","l","i","c","e">>
\* "* @alice"
ContentAliceLower == <<"*"," ","@","a","l","i","c","e">>
\* "* @Alice @alice"
ContentAliceTwice == <<"*"," ","@","A","l","i","c","e"," ","@","a","l","i","c","e">>
\* "# docTriagers: @bob @carol"
ContentTriagers ==
  <<"#"," ","d","o","c","T","r","i","a","g","e","r","s",":"," ",
    "@","b","o","b"," ","@","c","a","r","o","l">>
\* "* @dave @o/t e@x\n/d @7 # codeTriagers: dave"
ContentMixed ==
  <<"*"," ","@","d","a","v","e"," ","@","o","/","t"," ","e","@","x","\n",
    "/","d"," ","@","7"," ","#"," ",
    "c","o","d","e","T","r","i","a","g","e","r","s",":"," ","d","a","v","e">>

Contents ==
  { ContentAliceUpper, ContentAliceLower, ContentAliceTwice, ContentTriagers,
    ContentMixed }

\* what getAllCodeownersFiles can return: one file per repository
CodeownersFileLists ==
  UNION { { [i \in 1..n |-> [repo |-> RepoNames[i], content |-> c[i]]] :
              c \in [1..n -> Contents] } : n \in 0..MaxDocs }

\* records of the MAINTAINERS file
NameAlice == <<"a","l","i","c","e">>
NameAliceUpper == <<"A","l","i","c","e">>
NameBob == <<"b","o","b">>
NameCarol == <<"c","a","r","o","l">>
NameDave == <<"d","a","v","e">>
NameSeven == <<"7">>

RecordAlice ==
  [github |-> NameAliceUpper, slack |-> <<"#team-x">>,
   repos |-> <<"old">>, githubID |-> <<"old-id">>]
RecordDave ==
  [github |-> NameDave, linkedin |-> <<"dave-in">>, repos |-> <<"old", "A">>]

RosterRecords == { RecordAlice, RecordDave }

\* contents of the MAINTAINERS file: None is a file without a document
\* (yaml.load gives undefined), otherwise a list of records
RosterFiles ==
  { None } \cup
  { Some(r) : r \in UNION { [1..n -> RosterRecords] : n \in 0..MaxPrev } }

\* values of the environment variable IGNORED_USERS
\* undefined and " alice , "
IgnoredUsersInputs ==
  { None, Some(<<" ","a","l","i","c","e"," ",","," ">>) }

\* values of the environment variable MAINTAINERS_FILE_PATH
MaintainersFilePaths == { None, Some(<<"M","A","I","N","T","A","I","N","E","R","S">>) }

(***************************************************************************)
(* State.                                                                  *)
(***************************************************************************)
VARIABLES
  pc,                   \* the position of run
  config,               \* ignoredUsers, maintainersFilePath
  rosterFile,           \* the content of the MAINTAINERS file
  rosterWritten,        \* writeFileSync has rewritten the MAINTAINERS file
  summaryEmitted,       \* summarizeChanges has completed
  codeownersFiles,      \* run: codeownersFiles
  previousMaintainers,  \* run: previousMaintainers (None: undefined)
  currentMaintainers,   \* the object built by collectCurrentMaintainers
  docIdx,               \* collectCurrentMaintainers: the file being processed
  owners,               \* collectCurrentMaintainers: owners of that file
  ownerIdx,             \* collectCurrentMaintainers: the next owner
  lookups,              \* the calls of getGitHubProfile and what they gave
  refreshedMaintainers  \* run: refreshedMaintainers

vars ==
  <<pc, config, rosterFile, rosterWritten, summaryEmitted, codeownersFiles,
    previousMaintainers, currentMaintainers, docIdx, owners, ownerIdx,
    lookups, refreshedMaintainers>>

Init ==
  /\ pc = "start"
  /\ \E users \in IgnoredUsersInputs, path \in MaintainersFilePaths :
       config = [ignoredUsers |-> getCommaSeparatedInputList(users),
                 maintainersFilePath |-> path]
  /\ rosterFile \in RosterFiles
  /\ rosterWritten = FALSE
  /\ summaryEmitted = FALSE
  /\ codeownersFiles = <<>>
  /\ previousMaintainers = None
  /\ currentMaintainers = <<>>
  /\ docIdx = 0
  /\ owners = <<>>
  /\ ownerIdx = 1
  /\ lookups = <<>>
  /\ refreshedMaintainers = <<>>

(***************************************************************************)
(* collectCurrentMaintainers                                               *)
(***************************************************************************)
\* the key without toLowerCase
KeyOfAsDeclared(owner) == owner

\* const key = owner.toLowerCase()
KeyOf(owner) == ToLowerCase(owner)

\* config.ignoredUsers.includes(owner)
IsIgnored(owner) == owner \in Range(config.ignoredUsers)

\* currentMaintainers[key].repos.push(repo)
PushRepo(obj, key, repo) ==
  Put(obj, key, [Get(obj, key) EXCEPT !.repos = Append(@, repo)])

CollectFrame ==
  UNCHANGED <<pc, config, rosterFile, rosterWritten, summaryEmitted,
              codeownersFiles, previousMaintainers, refreshedMaintainers>>

OwnerPending == pc = "collect" /\ ownerIdx <= Len(owners)
LookupPending ==
  /\ OwnerPending
  /\ ~IsIgnored(owners[ownerIdx])
  /\ ~HasKey(currentMaintainers, KeyOf(owners[ownerIdx]))

\* the next file: extract its owners
CollectNextFile ==
  /\ pc = "collect"
  /\ ownerIdx > Len(owners)
  /\ docIdx < Len(codeownersFiles)
  /\ docIdx' = docIdx + 1
  /\ owners' = extractGitHubUsernames(codeownersFiles[docIdx + 1].content)
  /\ ownerIdx' = 1
  /\ UNCHANGED <<currentMaintainers, lookups>>
  /\ CollectFrame

\* the owner is on the ignore list
CollectIgnored ==
  /\ OwnerPending
  /\ IsIgnored(owners[ownerIdx])
  /\ ownerIdx' = ownerIdx + 1
  /\ UNCHANGED <<currentMaintainers, lookups, docIdx, owners>>
  /\ CollectFrame

\* the key has an entry: no lookup, the repository is appended
CollectKnown ==
  /\ OwnerPending
  /\ ~IsIgnored(owners[ownerIdx])
  /\ HasKey(currentMaintainers, KeyOf(owners[ownerIdx]))
  /\ currentMaintainers' =
       PushRepo(currentMaintainers, KeyOf(owners[ownerIdx]),
                codeownersFiles[docIdx].repo)
  /\ ownerIdx' = ownerIdx + 1
  /\ UNCHANGED <<lookups, docIdx, owners>>
  /\ CollectFrame

\* the key has no entry and getGitHubProfile returns a profile
CollectLookupFound ==
  /\ LookupPending
  /\ LET owner == owners[ownerIdx]
         key == KeyOf(owner)
         entry == Spread(GitHubProfile(owner), [repos |-> <<>>])
     IN  /\ lookups' = Append(lookups, [owner |-> owner, found |-> TRUE])
         /\ currentMaintainers' =
              PushRepo(Put(currentMaintainers, key, entry), key,
                       codeownersFiles[docIdx].repo)
  /\ ownerIdx' = ownerIdx + 1
  /\ UNCHANGED <<docIdx, owners>>
  /\ CollectFrame

\* the key has no entry and getGitHubProfile returns no profile
CollectLookupNotFound ==
  /\ LookupPending
  /\ lookups' = Append(lookups, [owner |-> owners[ownerIdx], found |-> FALSE])
  /\ ownerIdx' = ownerIdx + 1
  /\ UNCHANGED <<currentMaintainers, docIdx, owners>>
  /\ CollectFrame

\* all files are processed: return currentMaintainers
CollectReturn ==
  /\ pc = "collect"
  /\ ownerIdx > Len(owners)
  /\ docIdx = Len(codeownersFiles)
  /\ pc' = "refresh"
  /\ UNCHANGED <<config, rosterFile, rosterWritten, summaryEmitted,
                 codeownersFiles, previousMaintainers, currentMaintainers,
                 docIdx, owners, ownerIdx, lookups, refreshedMaintainers>>

(***************************************************************************)
(* refreshPreviousMaintainers                                              *)
(***************************************************************************)
\* the key without toLowerCase
PrevKeyAsRecorded(previousEntry) == previousEntry.github

\* const key = previousEntry.github.toLowerCase()
PrevKey(previousEntry) == ToLowerCase(previousEntry.github)

\* the spread last: the previous repos and githubID win
RefreshedEntryPreviousWins(previousEntry, currentMaintainer) ==
  Spread([repos |-> currentMaintainer.repos,
          githubID |-> currentMaintainer.githubID], previousEntry)

\* { ...previousEntry, repos: ..., githubID: ... }
RefreshedEntry(previousEntry, currentMaintainer) ==
  Spread(previousEntry, [repos |-> currentMaintainer.repos,
                         githubID |-> currentMaintainer.githubID])

\* the loop over the previous maintainers; it deletes from currentMaintainers
RECURSIVE RefreshLoop(_, _, _)
RefreshLoop(previous, current, updated) ==
  IF previous = <<>>
  THEN [updatedMaintainers |-> updated, currentMaintainers |-> current]
  ELSE LET previousEntry == Head(previous)
           key == PrevKey(previousEntry)
       IN  IF ~HasKey(current, key)
           THEN RefreshLoop(Tail(previous), current, updated)
           ELSE RefreshLoop(Tail(previous), Delete(current, key),
                            Append(updated,
                                   RefreshedEntry(previousEntry,
                                                  Get(current, key))))

\* unshift instead of push: the new maintainers come first
UnshiftAll(updatedMaintainers, newMaintainers) ==
  newMaintainers \o updatedMaintainers

\* updatedMaintainers.push(...newMaintainers)
PushAll(updatedMaintainers, newMaintainers) ==
  updatedMaintainers \o newMaintainers

\* the returned list, and the object of the caller after the call
refreshPreviousMaintainers(previous, current) ==
  LET loop == RefreshLoop(previous, current, <<>>)
  IN  [updatedMaintainers |->
         PushAll(loop.updatedMaintainers,
                 ObjectValues(loop.currentMaintainers)),
       currentMaintainers |-> loop.currentMaintainers]

(***************************************************************************)
(* run, and the wrapper that catches what it throws.                       *)
(***************************************************************************)
RunFrame ==
  UNCHANGED <<config, currentMaintainers, docIdx, owners, ownerIdx, lookups>>

\* the check of MAINTAINERS_FILE_PATH, then loadCache
RunStart ==
  /\ pc = "start"
  /\ pc' = IF config.maintainersFilePath = None
             \/ config.maintainersFilePath = Some(<<>>)
           THEN "failed" ELSE "getRepositories"
  /\ UNCHANGED <<rosterFile, rosterWritten, summaryEmitted, codeownersFiles,
                 previousMaintainers, refreshedMaintainers>>
  /\ RunFrame

GetRepositories ==
  /\ pc = "getRepositories"
  /\ pc' = "getAllCodeownersFiles"
  /\ UNCHANGED <<rosterFile, rosterWritten, summaryEmitted, codeownersFiles,
                 previousMaintainers, refreshedMaintainers>>
  /\ RunFrame

GetAllCodeownersFiles ==
  /\ pc = "getAllCodeownersFiles"
  /\ codeownersFiles' \in CodeownersFileLists
  /\ pc' = "readRoster"
  /\ UNCHANGED <<rosterFile, rosterWritten, summaryEmitted,
                 previousMaintainers, refreshedMaintainers>>
  /\ RunFrame

\* yaml.load(fs.readFileSync(...)), then collectCurrentMaintainers starts
ReadRoster ==
  /\ pc = "readRoster"
  /\ previousMaintainers' = rosterFile
  /\ pc' = "collect"
  /\ UNCHANGED <<rosterFile, rosterWritten, summaryEmitted, codeownersFiles,
                 refreshedMaintainers>>
  /\ RunFrame

\* refreshPreviousMaintainers; iterating over undefined throws
Refresh ==
  /\ pc = "refresh"
  /\ IF previousMaintainers = None
     THEN /\ pc' = "failed"
          /\ UNCHANGED <<currentMaintainers, refreshedMaintainers>>
     ELSE LET r == refreshPreviousMaintainers(previousMaintainers[1],
                                              currentMaintainers)
          IN  /\ pc' = "write"
              /\ refreshedMaintainers' = r.updatedMaintainers
              /\ currentMaintainers' = r.currentMaintainers
  /\ UNCHANGED <<config, rosterFile, rosterWritten, summaryEmitted,
                 codeownersFiles, previousMaintainers, docIdx, owners,
                 ownerIdx, lookups>>

\* fs.writeFileSync(config.maintainersFilePath, yaml.dump(refreshedMaintainers))
WriteRoster ==
  /\ pc = "write"
  /\ rosterFile' = Some(refreshedMaintainers)
  /\ rosterWritten' = TRUE
  /\ pc' = "printAPICallsStats"
  /\ UNCHANGED <<summaryEmitted, codeownersFiles, previousMaintainers,
                 refreshedMaintainers>>
  /\ RunFrame

PrintAPICallsStats ==
  /\ pc = "printAPICallsStats"
  /\ pc' = "summarizeChanges"
  /\ UNCHANGED <<rosterFile, rosterWritten, summaryEmitted, codeownersFiles,
                 previousMaintainers, refreshedMaintainers>>
  /\ RunFrame

SummarizeChanges ==
  /\ pc = "summarizeChanges"
  /\ summaryEmitted' = TRUE
  /\ pc' = "saveCache"
  /\ UNCHANGED <<rosterFile, rosterWritten, codeownersFiles,
                 previousMaintainers, refreshedMaintainers>>
  /\ RunFrame

SaveCache ==
  /\ pc = "saveCache"
  /\ pc' = "done"
  /\ UNCHANGED <<rosterFile, rosterWritten, summaryEmitted, codeownersFiles,
                 previousMaintainers, refreshedMaintainers>>
  /\ RunFrame

\* a collaborator throws; the wrapper catches it and calls core.setFailed
CallThrows ==
  /\ \/ pc \in { "getRepositories", "getAllCodeownersFiles", "readRoster",
                 "printAPICallsStats", "summarizeChanges", "saveCache" }
     \/ LookupPending
  /\ pc' = "failed"
  /\ UNCHANGED <<rosterFile, rosterWritten, summaryEmitted, codeownersFiles,
                 previousMaintainers, refreshedMaintainers>>
  /\ RunFrame

Next ==
  \/ RunStart
  \/ GetRepositories
  \/ GetAllCodeownersFiles
  \/ ReadRoster
  \/ CollectNextFile
  \/ CollectIgnored
  \/ CollectKnown
  \/ CollectLookupFound
  \/ CollectLookupNotFound
  \/ CollectReturn
  \/ Refresh
  \/ WriteRoster
  \/ PrintAPICallsStats
  \/ SummarizeChanges
  \/ SaveCache
  \/ CallThrows

Spec == Init /\ [][Next]_vars

TypeOK ==
  /\ pc \in { "start", "getRepositories", "getAllCodeownersFiles",
              "readRoster", "collect", "refresh", "write",
              "printAPICallsStats", "summarizeChanges", "saveCache",
              "done", "failed" }
  /\ docIdx \in 0..Len(codeownersFiles)
  /\ ownerIdx \in 1..(Len(owners) + 1)

(***************************************************************************)
(* Vocabulary of the properties.                                           *)
(***************************************************************************)
\* the owners each file declares
DeclaredOwners ==
  [i \in DOMAIN codeownersFiles |->
     Range(extractGitHubUsernames(codeownersFiles[i].content))]

\* the spellings of the lower-cased username u in a set of owners
Variants(declared, u) == { o \in declared : ToLowerCase(o) = u }

\* the repositories of the files of the index set I, in file order
RECURSIVE ReposOf(_, _)
ReposOf(I, from) ==
  IF from > Len(codeownersFiles) THEN <<>>
  ELSE (IF from \in I THEN <<codeownersFiles[from].repo>> ELSE <<>>)
         \o ReposOf(I, from + 1)

\* collectCurrentMaintainers has returned and nothing has touched its result
Collected == pc = "refresh"

\* the step of run that calls refreshPreviousMaintainers on a roster
RefreshCall == pc = "refresh" /\ previousMaintainers # None

\* the lower-cased github name of a roster record
GithubKey(record) == ToLowerCase(record.github)

\* the fields of a record that the reconciler does not overwrite
Stable(record) == [f \in DOMAIN record \ {"repos", "githubID"} |-> record[f]]

\* the n-th smallest element of a set of integers
Nth(S, n) == CHOOSE i \in S : Cardinality({ j \in S : j < i }) = n - 1

\* previous records whose key is a key of the map
MatchedIdx(previous, current) ==
  { i \in DOMAIN previous : GithubKey(previous[i]) \in Keys(current) }

\* previous records whose key is a key of the map and that are the first
\* record of the roster with that key
FirstMatchedIdx(previous, current) ==
  { i \in MatchedIdx(previous, current) :
      \A j \in 1..(i - 1) : GithubKey(previous[j]) # GithubKey(previous[i]) }

\* the properties of the map no previous record matches, in insertion order,
\* which is the order of first discovery
Unmatched(previous, current) ==
  SelectSeq(current,
            LAMBDA p : \A i \in DOMAIN previous : GithubKey(previous[i]) # p.key)

\* out starts with the previous records of the index set K, in roster order
StartsWithKept(out, previous, K) ==
  /\ Len(out) >= Cardinality(K)
  /\ \A n \in 1..Cardinality(K) :
       Stable(out[n]) = Stable(previous[Nth(K, n)])

\* the place of the m-th unmatched property among the new records: array
\* indices first, ascending, then the other keys in insertion order
EnumerationRank(D, m) ==
  IF IsArrayIndex(D[m].key)
  THEN 1 + Cardinality({ j \in DOMAIN D :
                           /\ IsArrayIndex(D[j].key)
                           /\ NumeralLess(D[j].key, D[m].key) })
  ELSE Cardinality({ j \in DOMAIN D : IsArrayIndex(D[j].key) })
         + 1 + Cardinality({ j \in 1..(m - 1) : ~IsArrayIndex(D[j].key) })

(***************************************************************************)
(* C1.  In one collection pass getGitHubProfile is called at most once for *)
(* each distinct lower-cased username, whatever the lookup returns.        *)
(* The code does not remember a username whose profile was not found.      *)
(***************************************************************************)
LookupOncePerUsername ==
  \A i, j \in DOMAIN lookups :
    ToLowerCase(lookups[i].owner) = ToLowerCase(lookups[j].owner) => i = j

(***************************************************************************)
(* C2.  An owner whose lower-cased form is on the ignore list never becomes *)
(* a key of the current-maintainer map and never triggers a lookup.        *)
(* The code compares the owner as declared, not its lower-cased form.      *)
(***************************************************************************)
IgnoredNeverCollected ==
  \A u \in Range(config.ignoredUsers) :
    /\ u \notin Keys(currentMaintainers)
    /\ \A i \in DOMAIN lookups : ToLowerCase(lookups[i].owner) # u

(***************************************************************************)
(* C3.  With one file per repository, the repos list of an entry holds a   *)
(* repository at most once, however often the file declares the username.  *)
(* The set of owners of a file is case-sensitive, the key is not.          *)
(***************************************************************************)
RepoOncePerEntry ==
  \A p \in DOMAIN currentMaintainers :
    LET repos == currentMaintainers[p].value.repos
    IN  \A i, j \in DOMAIN repos : repos[i] = repos[j] => i = j

(***************************************************************************)
(* C4.  A run either succeeds, with the roster rewritten and the summary   *)
(* emitted, or is reported as failed with the roster file not rewritten.   *)
(* The code writes the file before the statistics, the summary and the     *)
(* cache save, each of which can still fail the run.                       *)
(***************************************************************************)
FailedRunLeavesRoster ==
  /\ pc = "failed" => ~rosterWritten
  /\ pc = "done" => rosterWritten /\ summaryEmitted

(***************************************************************************)
(* C5.  Spellings of one username that differ in letter case and are       *)
(* declared in different files collapse into one entry, keyed by the       *)
(* lower-cased username, whose repos are the repositories of those files   *)
(* in processing order.  It is stated for the usernames that the pass      *)
(* accepts: no spelling is ignored and no lookup of it came back empty.    *)
(***************************************************************************)
Accepted(declared, u) ==
  /\ \A i \in DOMAIN declared :
       /\ Cardinality(Variants(declared[i], u)) <= 1
       /\ \A o \in Variants(declared[i], u) : o \notin Range(config.ignoredUsers)
  /\ \A i \in DOMAIN lookups :
       ToLowerCase(lookups[i].owner) = u => lookups[i].found

CaseInsensitiveMerge ==
  Collected =>
    LET declared == DeclaredOwners
        usernames == { ToLowerCase(o) :
                         o \in UNION { declared[i] : i \in DOMAIN declared } }
    IN  /\ \A p, q \in DOMAIN currentMaintainers :
             ToLowerCase(currentMaintainers[p].key)
               = ToLowerCase(currentMaintainers[q].key) => p = q
        /\ \A u \in usernames :
             Accepted(declared, u) =>
               /\ HasKey(currentMaintainers, u)
               /\ Get(currentMaintainers, u).repos
                    = ReposOf({ i \in DOMAIN declared :
                                  Variants(declared[i], u) # {} }, 1)

CaseInsensitiveMergeWitness ==
  /\ Collected
  /\ Len(codeownersFiles) = 2
  /\ codeownersFiles[1].content = ContentAliceUpper
  /\ codeownersFiles[2].content = ContentAliceLower
  /\ Len(currentMaintainers) = 1
  /\ currentMaintainers[1].key = NameAlice
  /\ currentMaintainers[1].value.repos = <<"A", "B">>

(***************************************************************************)
(* C6 as stated.  A previous record is dropped exactly when its            *)
(* lower-cased github name is not a key of the map passed in: the kept     *)
(* records are the previous records with a key of the map.                 *)
(***************************************************************************)
DroppedIffNotCurrent ==
  [][RefreshCall =>
       LET previous == previousMaintainers[1]
           K == MatchedIdx(previous, currentMaintainers)
       IN  /\ StartsWithKept(refreshedMaintainers', previous, K)
           /\ Len(refreshedMaintainers')
                = Cardinality(K) + Len(Unmatched(previous, currentMaintainers))
    ]_vars

(***************************************************************************)
(* C6 amended.  A previous record is dropped exactly when its lower-cased  *)
(* github name is not a key of the map passed in or an earlier record of   *)
(* the roster has the same lower-cased name: a key is consumed by the      *)
(* first record that matches it.                                           *)
(***************************************************************************)
DroppedIffNotCurrentOrConsumed ==
  [][RefreshCall =>
       LET previous == previousMaintainers[1]
           K == FirstMatchedIdx(previous, currentMaintainers)
       IN  /\ StartsWithKept(refreshedMaintainers', previous, K)
           /\ Len(refreshedMaintainers')
                = Cardinality(K) + Len(Unmatched(previous, currentMaintainers))
    ]_vars

\* a current owner is kept and a maintainer who owns nothing is dropped
DroppedWitness ==
  /\ pc = "write"
  /\ previousMaintainers = Some(<<RecordDave, RecordAlice>>)
  /\ Len(refreshedMaintainers) = 1
  /\ refreshedMaintainers[1].github = NameAliceUpper
  /\ refreshedMaintainers[1].slack = <<"#team-x">>

(***************************************************************************)
(* C7.  A kept record has the repos and the githubID of the matching       *)
(* current entry and every other field of the previous record; it has no   *)
(* other field.                                                            *)
(***************************************************************************)
KeptRecordFields ==
  [][RefreshCall =>
       LET previous == previousMaintainers[1]
           K == FirstMatchedIdx(previous, currentMaintainers)
       IN  /\ Len(refreshedMaintainers') >= Cardinality(K)
           /\ \A n \in 1..Cardinality(K) :
                LET out == refreshedMaintainers'[n]
                    prev == previous[Nth(K, n)]
                    cur == Get(currentMaintainers, GithubKey(prev))
                IN  /\ DOMAIN out = DOMAIN prev \cup {"repos", "githubID"}
                    /\ out.repos = cur.repos
                    /\ out.githubID = cur.githubID
                    /\ \A f \in DOMAIN prev \ {"repos", "githubID"} :
                         out[f] = prev[f]
    ]_vars

KeptRecordFieldsWitness ==
  /\ pc = "write"
  /\ previousMaintainers = Some(<<RecordAlice>>)
  /\ Len(refreshedMaintainers) = 1
  /\ refreshedMaintainers[1].github = NameAliceUpper
  /\ refreshedMaintainers[1].slack = <<"#team-x">>
  /\ refreshedMaintainers[1].repos = <<"A", "B">>
  /\ refreshedMaintainers[1].githubID = <<"id">> \o NameAlice

(***************************************************************************)
(* C8 as stated.  The reconciled roster is the kept previous records in    *)
(* roster order, followed by one fresh record for each unmatched key of    *)
(* the map in the order the usernames were first discovered.               *)
(***************************************************************************)
NewInDiscoveryOrder ==
  [][RefreshCall =>
       LET previous == previousMaintainers[1]
           K == FirstMatchedIdx(previous, currentMaintainers)
           D == Unmatched(previous, currentMaintainers)
       IN  /\ StartsWithKept(refreshedMaintainers', previous, K)
           /\ Len(refreshedMaintainers') = Cardinality(K) + Len(D)
           /\ \A m \in DOMAIN D :
                refreshedMaintainers'[Cardinality(K) + m] = D[m].value
    ]_vars

(***************************************************************************)
(* C8 amended.  The reconciled roster is the kept previous records in      *)
(* roster order, followed by one fresh record for each unmatched key of    *)
(* the map in the enumeration order of the map: the keys that are array    *)
(* indices (usernames of digits only) first, in ascending numeric order,   *)
(* then the other keys in the order of first discovery.                    *)
(***************************************************************************)
NewInEnumerationOrder ==
  [][RefreshCall =>
       LET previous == previousMaintainers[1]
           K == FirstMatchedIdx(previous, currentMaintainers)
           D == Unmatched(previous, currentMaintainers)
       IN  /\ StartsWithKept(refreshedMaintainers', previous, K)
           /\ Len(refreshedMaintainers') = Cardinality(K) + Len(D)
           /\ \A m \in DOMAIN D :
                refreshedMaintainers'[Cardinality(K) + EnumerationRank(D, m)]
                  = D[m].value
    ]_vars

\* a kept record, then the new maintainers: 7 was discovered after dave
NewInEnumerationOrderWitness ==
  /\ pc = "write"
  /\ previousMaintainers = Some(<<RecordAlice>>)
  /\ Len(lookups) = 3
  /\ lookups[2].owner = NameDave
  /\ lookups[3].owner = NameSeven
  /\ Len(refreshedMaintainers) = 3
  /\ refreshedMaintainers[1].github = NameAliceUpper
  /\ refreshedMaintainers[2].github = NameSeven
  /\ refreshedMaintainers[3].github = NameDave

(***************************************************************************)
(* C9.  The owners extracted from "# docTriagers: @bob @carol" are exactly *)
(* bob and carol, the usernames the declaration path gives for them.       *)
(* The code adds the tokens of the annotation with their '@'.              *)
(***************************************************************************)
TriagersAreUsernames ==
  (pc = "collect" /\ docIdx >= 1
     /\ codeownersFiles[docIdx].content = ContentTriagers)
    => Range(owners) = {NameBob, NameCarol}

(***************************************************************************)
(* C10.  The reconciler works on its own copy: the map of the caller is    *)
(* the same after the call as before it.                                   *)
(* The code deletes the matched keys from the object it is given.          *)
(***************************************************************************)
CallerMapUntouched ==
  [][RefreshCall => currentMaintainers' = currentMaintainers]_vars

=============================================================================
